---------------------------- MODULE Spec2Model ----------------------------
(***************************************************************************)
(* MDSuite batched transformation engine                                   *)
(* (mdsuite/transformations/transformations.py, class Transformations).    *)
(*                                                                         *)
(* The on-disk store, the memory manager, the data manager and the         *)
(* experiment are collaborators whose code lives in other modules of the   *)
(* package; they are modelled from their documented contracts.             *)
(*                                                                         *)
(* One configuration of one dataset (an [n_particles, n_dims] slab) is     *)
(* abstracted to one integer; a dataset is its shape plus the sequence of  *)
(* these integers along the configuration axis.  0 is the value of a       *)
(* zero-initialised, never written configuration.                          *)
(***************************************************************************)
EXTENDS Integers, Sequences, FiniteSets, TLC

(* ------------------------------ bounds --------------------------------- *)
MaxConf == 3
MaxBatch == 2
MaxPrefetch == 2
MaxRuns == 2
MaxCalls == 3
MaxDepth == 8
MaxStoreCalls == 2
MaxFluxSteps == 4
MaxFluxBatch == 3
MaxColumns == 3

(* --------------------------- experiment -------------------------------- *)
Species == <<"Na", "Cl">>

SpeciesSet == {Species[i] : i \in 1..Len(Species)}

n_particles(sp) == IF sp = "Na" THEN 1 ELSE 2

RawProperties == {"Positions", "Box_Images"}

DerivedProperties == {"Unwrapped_Positions", "Translational_Dipole_Moment"}

PropertyNames == RawProperties \cup DerivedProperties

PropertyNDims == 3

join_path(species, property) == <<species, property>>

Paths == {join_path(s, p) : s \in SpeciesSet, p \in PropertyNames}

Unset == -1

(* value a trajectory file puts at configuration i (1-based) *)
RawValue(sp, prop, i) ==
    i + (IF sp = "Cl" THEN 10 ELSE 0) + (IF prop = "Box_Images" THEN 20 ELSE 0)

(* ------------------------------ store ---------------------------------- *)
NoDataset == [exists |-> FALSE, np |-> 0, nd |-> 0, data |-> <<>>]

Zeros(n) == [i \in 1..n |-> 0]

RawDataset(sp, prop, n) ==
    [exists |-> TRUE, np |-> n_particles(sp), nd |-> PropertyNDims,
     data |-> [i \in 1..n |-> RawValue(sp, prop, i)]]

check_existence(store, path) == path \in DOMAIN store /\ store[path].exists

get_data_size(store, path) ==
    <<store[path].np, Len(store[path].data), store[path].nd>>

(* variant: the axes of the requested shape are taken in the wrong order *)
AddDatasetSwapped(store, path, shape) ==
    [store EXCEPT ![path] =
        [exists |-> TRUE, np |-> shape[2], nd |-> shape[3], data |-> Zeros(shape[1])]]

add_dataset(store, path, shape) ==
    [store EXCEPT ![path] =
        [exists |-> TRUE, np |-> shape[1], nd |-> shape[3], data |-> Zeros(shape[2])]]

(* the configuration axis changes by shape[2]; a negative amount shrinks it *)
resize_dataset(store, path, shape) ==
    LET old == store[path].data
        new == IF Len(old) + shape[2] < 0 THEN 0 ELSE Len(old) + shape[2]
    IN [store EXCEPT ![path].data =
           [i \in 1..new |-> IF i <= Len(old) THEN old[i] ELSE 0]]

(* write rows at configuration indices start_idx .. start_idx+len-1 (0-based) *)
add_data(store, path, rows, start_idx) ==
    [store EXCEPT ![path].data =
        [i \in 1..Len(@) |->
            IF i - 1 >= start_idx /\ i - 1 < start_idx + Len(rows)
            THEN rows[i - start_idx] ELSE @[i]]]

(* bulk read of the index range [lo, lo+n), clipped to the dataset *)
load_data(store, path, lo, n) ==
    LET d == store[path].data
        first == IF lo < 0 THEN 0 ELSE lo
        hi == IF lo + n > Len(d) THEN Len(d) ELSE lo + n
    IN [i \in 1..(IF hi > first THEN hi - first ELSE 0) |-> d[first + i]]

(* --------------------- concrete transformations ------------------------ *)
TransformationNames ==
    {"UnwrapViaIndices", "UnwrapCoordinates", "TranslationalDipoleMoment"}

input_properties(t) ==
    CASE t = "UnwrapViaIndices" -> <<"Positions", "Box_Images">>
      [] t = "UnwrapCoordinates" -> <<"Positions">>
      [] OTHER -> <<"Unwrapped_Positions">>

output_property(t) ==
    IF t = "TranslationalDipoleMoment" THEN "Translational_Dipole_Moment"
    ELSE "Unwrapped_Positions"

(* UnwrapCoordinates accumulates jumps along the configuration axis; the   *)
(* other two act on every configuration on its own                         *)
Cumulative(t) == t = "UnwrapCoordinates"

RECURSIVE CumSum(_)
CumSum(s) ==
    IF s = <<>> THEN <<>>
    ELSE LET front == CumSum(SubSeq(s, 1, Len(s) - 1))
         IN Append(front, (IF front = <<>> THEN 0 ELSE front[Len(front)]) + s[Len(s)])

RECURSIVE SumOver(_, _, _)
SumOver(props, batch, i) ==
    IF props = <<>> THEN 0
    ELSE batch[Head(props)][i] + SumOver(Tail(props), batch, i)

(* batch: property name -> sequence of configurations *)
transform_batch(t, batch) ==
    LET props == input_properties(t)
        n == Len(batch[props[1]])
    IN IF Cumulative(t) THEN CumSum(batch[props[1]])
       ELSE [i \in 1..n |-> 100 + SumOver(props, batch, i)]


(* ----------------------- Transformations state ------------------------- *)
VARIABLES
    db,                         \* the on-disk trajectory store
    number_of_configurations,   \* experiment.number_of_configurations
    tr,                         \* the concrete class of the instance
    dependency,                 \* self.dependency
    offset,                     \* self.offset
    batch_size,                 \* self.batch_size
    n_batches,                  \* self.n_batches
    remainder,                  \* self.remainder
    pc,                         \* position inside run_transformation
    err,                        \* exception that left the call, or "none"
    species_list,               \* species still to be looped over
    species,                    \* loop variable of run_transformation
    nread,                      \* batches the generator has produced
    prefetched,                 \* batches read ahead, not yet consumed
    index,                      \* next value of enumerate(data_set)
    chunk,                      \* transformed batch handed to _save_output
    attempts,                   \* add_data attempts for the current chunk
    ops,                        \* store mutations of the current call
    consumed,                   \* ranges handed to transform_batch, this species
    start_length,               \* output lengths when the run started (-1: absent)
    processed,                  \* species allocated and streamed to the end
    finished,                   \* <<class, species>> streamed to the end by any run
    runs,                       \* run_transformation calls so far
    run_list,                   \* species the current run was called with
    done_before,                \* species this class had finished before the run
    call,                       \* last method called directly
    calls,                      \* direct method calls so far
    memory_fit,                 \* floor(budget / cost) the memory manager last saw
    graph,                      \* self.dependency of each concrete class
    stack,                      \* _resolve_dependencies frames, innermost last
    reader                      \* a file reader: its file, metadata and generator

vars == <<db, number_of_configurations, tr, dependency, offset, batch_size,
          n_batches, remainder, pc, err, species_list, species, nread,
          prefetched, index, chunk, attempts, ops, consumed, start_length,
          processed, finished, runs, run_list, done_before, call, calls,
          memory_fit, graph, stack, reader>>

resolve_vars == <<graph, stack>>

instance_vars == <<tr, dependency, offset, batch_size, n_batches, remainder>>

loop_vars == <<species_list, species, nread, prefetched, index, chunk, attempts,
               consumed, start_length, processed, runs, run_list, done_before>>

NoChunk == [rows |-> <<>>, index |-> 0, lo |-> 0]

NoReader == [state |-> "none"]

NoCall == [name |-> "none", arg |-> "none", existed |-> FALSE, old_length |-> 0,
           invoked |-> "none", resolved |-> 0]

(* ------------------------------ helpers -------------------------------- *)
OutputPath(t, sp) == join_path(sp, output_property(t))

InputPaths(t, sp) ==
    [i \in 1..Len(input_properties(t)) |-> join_path(sp, input_properties(t)[i])]

Op(name, path, start, n) == [op |-> name, path |-> path, start |-> start, n |-> n]

(* variant: a remainder batch is announced whatever the remainder is *)
RemainderToBinaryAlways(r) == 1

_remainder_to_binary(r) == IF r > 0 THEN 1 ELSE 0

(* MemoryManager.get_batch_size: fit is floor(budget / scaled cost); a fit   *)
(* below 1 is an insufficient-memory condition, the batch size is at least 1 *)
InsufficientMemory(fit) == fit < 1

get_batch_size(store, data_path, off, fit) ==
    LET total == Len(store[data_path[1]].data) - off
        size == IF fit < 1 THEN 1 ELSE fit
    IN <<size, total \div size, total % size>>

(* DataManager.batch_generator: range of the k-th batch (k = 0, 1, ...) *)
BatchCount(nb, r) == (IF nb > 0 THEN nb ELSE 0) + _remainder_to_binary(r)

BatchRange(k, bs, nb, r, off) ==
    IF k < nb THEN <<off + k * bs, bs>> ELSE <<off + nb * bs, r>>

ReadBatchData(store, t, sp, lo, n) ==
    [data |-> [p \in {InputPaths(t, sp)[i] : i \in 1..Len(input_properties(t))} |->
                  load_data(store, p, lo, n)],
     data_size |-> n,
     lo |-> lo]

(* keys lose their species: the transform only sees property names *)
(* strings as sequences of tokens: a name is one token, "/" and "'" are tokens *)
(* str.encode(join_path(species, prop.name)), the key of the type_spec         *)
EncodeKey(path) == <<path[1], "/", path[2]>>

(* str(key) of a bytes key: b'...' *)
BytesToStr(key) == <<"b", "'">> \o key \o <<"'">>

(* .split("/")[-1] *)
SplitLast(s) ==
    LET slashes == {i \in 1..Len(s) : s[i] = "/"}
    IN IF slashes = {} THEN s
       ELSE SubSeq(s, (CHOOSE i \in slashes : \A j \in slashes : j <= i) + 1, Len(s))

RECURSIVE LeftStrip(_)
LeftStrip(s) == IF s # <<>> /\ Head(s) = "'" THEN LeftStrip(Tail(s)) ELSE s

RECURSIVE RightStrip(_)
RightStrip(s) ==
    IF s # <<>> /\ s[Len(s)] = "'" THEN RightStrip(SubSeq(s, 1, Len(s) - 1)) ELSE s

(* .strip("'") *)
StripQuotes(s) == RightStrip(LeftStrip(s))

StripKey(key) == StripQuotes(SplitLast(BytesToStr(key)))

(* the dict the dataset yields: one entry per key of the type_spec *)
BatchDict(batch) ==
    [key \in {EncodeKey(p) : p \in DOMAIN batch.data} \cup {<<"data_size">>} |->
        IF key = <<"data_size">> THEN batch.data_size
        ELSE batch.data[join_path(key[1], key[3])]]

(* batch_dict_wo_species as the loop builds it, key by key *)
batch_dict_wo_species(batch) ==
    LET batch_dict == BatchDict(batch)
    IN [k \in {StripKey(key) : key \in DOMAIN batch_dict} |->
           batch_dict[CHOOSE key \in DOMAIN batch_dict : StripKey(key) = k]]

StripSpecies(batch) ==
    [prop \in {p[2] : p \in DOMAIN batch.data} |->
        batch.data[CHOOSE p \in DOMAIN batch.data : p[2] = prop]]

(* ---------------------- _prepare_database_entry ------------------------ *)
(* variant: the new dataset is created with the first two axes exchanged *)
PrepareDatabaseEntrySwapped(store, off, t, sp, N) ==
    LET path == OutputPath(t, sp)
        existing == check_existence(store, path)
        old_shape == get_data_size(store, path)
    IN IF existing
       THEN [db |-> resize_dataset(store, path,
                        <<n_particles(sp), N - old_shape[1], PropertyNDims>>),
             offset |-> old_shape[1],
             op |-> Op("resize_dataset", path, 0, N - old_shape[1])]
       ELSE [db |-> add_dataset(store, path, <<N, n_particles(sp), PropertyNDims>>),
             offset |-> off,
             op |-> Op("add_dataset", path, 0, N)]

PrepareDatabaseEntry(store, off, t, sp, N) ==
    LET path == OutputPath(t, sp)
        existing == check_existence(store, path)
        old_shape == get_data_size(store, path)
    IN IF existing
       THEN [db |-> resize_dataset(store, path,
                        <<n_particles(sp), N - old_shape[1], PropertyNDims>>),
             offset |-> old_shape[1],
             op |-> Op("resize_dataset", path, 0, N - old_shape[1])]
       ELSE [db |-> add_dataset(store, path, <<n_particles(sp), N, PropertyNDims>>),
             offset |-> off,
             op |-> Op("add_dataset", path, 0, N)]

(* variant: the memory manager is built without offset=self.offset *)
PrepareMonitorsNoOffset(store, data_path, off, fit) ==
    get_batch_size(store, data_path, 0, fit)

(* --------------------------- _prepare_monitors ------------------------- *)
PrepareMonitors(store, data_path, off, fit) == get_batch_size(store, data_path, off, fit)

(* variant: the condition is caught and the clamped triple is used *)
MonitorsErrorCaught(fit) == "none"

(* exception leaving _prepare_monitors: nothing there catches what the       *)
(* memory manager raises                                                     *)
MonitorsError(fit) ==
    IF InsufficientMemory(fit) THEN "InsufficientMemoryError" ELSE "none"

InputsExist(store, t, sp) ==
    \A i \in 1..Len(input_properties(t)) : check_existence(store, InputPaths(t, sp)[i])

(* ------------------------------ _save_output --------------------------- *)
SaveStart(c, off) == c.index + off

(* variant: the chunk is stored under the path the batch was read from *)
SaveOutputToInput(store, t, sp, c, off) ==
    add_data(store, InputPaths(t, sp)[1], c.rows, SaveStart(c, off))

SaveOutput(store, t, sp, c, off) ==
    add_data(store, OutputPath(t, sp), c.rows, SaveStart(c, off))

(* ------------------------------- Init ---------------------------------- *)
(* one configuration of every species added to the experiment *)
InitStore ==
    /\ number_of_configurations = 1
    /\ \E images \in BOOLEAN :
         db = [p \in Paths |->
                 IF p[2] = "Positions" \/ (p[2] = "Box_Images" /\ images)
                 THEN RawDataset(p[1], p[2], 1) ELSE NoDataset]

(* no instance built, nothing called, no file opened *)
InitInstance ==
    /\ tr = "none"
    /\ dependency = "none"
    /\ offset = 0
    /\ batch_size = Unset
    /\ n_batches = Unset
    /\ remainder = Unset
    /\ pc = "idle"
    /\ err = "none"
    /\ species_list = <<>>
    /\ species = "none"
    /\ nread = 0
    /\ prefetched = <<>>
    /\ index = 0
    /\ chunk = NoChunk
    /\ attempts = <<>>
    /\ ops = <<>>
    /\ consumed = <<>>
    /\ start_length = [sp \in SpeciesSet |-> -1]
    /\ processed = {}
    /\ finished = {}
    /\ runs = 0
    /\ run_list = {}
    /\ done_before = {}
    /\ call = NoCall
    /\ calls = 0
    /\ memory_fit = Unset
    /\ stack = <<>>
    /\ reader = NoReader

InitExperiment == InitStore /\ InitInstance

(* self.dependency = None unless a subclass sets it *)
NoDependencies == [t \in TransformationNames |-> "none"]

Init == InitExperiment /\ graph = NoDependencies

Idle == pc \in {"idle", "done", "error"}

(* the experiment reads one more configuration from the trajectory file *)
ExperimentAddData ==
    /\ Idle
    /\ number_of_configurations < MaxConf
    /\ number_of_configurations' = number_of_configurations + 1
    /\ db' = [p \in Paths |->
                IF p[2] \in RawProperties /\ db[p].exists
                THEN RawDataset(p[1], p[2], number_of_configurations + 1)
                ELSE db[p]]
    /\ pc' = "idle"
    /\ call' = NoCall
    /\ UNCHANGED <<reader, resolve_vars, memory_fit, instance_vars, err, loop_vars, ops, finished, calls>>

(* ------------------------- run_transformation -------------------------- *)
SpeciesLists == {Species, <<"Cl">>}

(* t(experiment).run_transformation(species), or a second call on the instance *)
StartRun(t, list) ==
    /\ Idle
    /\ runs < MaxRuns
    /\ runs' = runs + 1
    /\ tr' = t
    /\ offset' = IF t = tr THEN offset ELSE 0
    /\ batch_size' = IF t = tr THEN batch_size ELSE Unset
    /\ n_batches' = IF t = tr THEN n_batches ELSE Unset
    /\ remainder' = IF t = tr THEN remainder ELSE Unset
    /\ dependency' = "none"
    /\ memory_fit' = Unset
    /\ species_list' = list
    /\ species' = "none"
    /\ pc' = "loop"
    /\ err' = "none"
    /\ ops' = <<>>
    /\ consumed' = <<>>
    /\ nread' = 0
    /\ prefetched' = <<>>
    /\ index' = 0
    /\ chunk' = NoChunk
    /\ attempts' = <<>>
    /\ processed' = {}
    /\ start_length' = [sp \in SpeciesSet |->
                          IF check_existence(db, OutputPath(t, sp))
                          THEN Len(db[OutputPath(t, sp)].data) ELSE -1]
    /\ run_list' = {list[i] : i \in 1..Len(list)}
    /\ done_before' = {sp \in SpeciesSet : <<t, sp>> \in finished}
    /\ call' = NoCall
    /\ UNCHANGED <<reader, resolve_vars, db, number_of_configurations, finished, calls>>

(* variant: the existence check is dropped *)
OutputExistsNever(store, t, sp) == FALSE

(* variant: a dataset counts as existing only when every index was written *)
OutputExistsPopulated(store, t, sp) ==
    /\ check_existence(store, OutputPath(t, sp))
    /\ \A i \in 1..Len(store[OutputPath(t, sp)].data) :
          store[OutputPath(t, sp)].data[i] # 0

(* the existence check that opens the loop body *)
OutputExists(store, t, sp) == check_existence(store, OutputPath(t, sp))

(* variant: the loop is left at the first species whose output exists *)
SkipBreak ==
    /\ pc = "loop"
    /\ species_list # <<>>
    /\ OutputExists(db, tr, Head(species_list))
    /\ species' = Head(species_list)
    /\ species_list' = <<>>
    /\ UNCHANGED <<reader, resolve_vars, memory_fit, db, number_of_configurations, instance_vars, pc, err, nread,
                   prefetched, index, chunk, attempts, ops, consumed, start_length,
                   processed, finished, runs, run_list,
                   done_before, call, calls>>

(* for species in species: output exists -> continue *)
Skip ==
    /\ pc = "loop"
    /\ species_list # <<>>
    /\ OutputExists(db, tr, Head(species_list))
    /\ species' = Head(species_list)
    /\ species_list' = Tail(species_list)
    /\ UNCHANGED <<reader, resolve_vars, memory_fit, db, number_of_configurations, instance_vars, pc, err, nread,
                   prefetched, index, chunk, attempts, ops, consumed, start_length,
                   processed, finished, runs, run_list,
                   done_before, call, calls>>

(* _prepare_database_entry, _prepare_monitors, batch_generator, from_generator *)
Allocate(fit) ==
    /\ pc = "loop"
    /\ species_list # <<>>
    /\ LET sp == Head(species_list)
           entry == PrepareDatabaseEntry(db, offset, tr, sp, number_of_configurations)
           triple == PrepareMonitors(entry.db, InputPaths(tr, sp), entry.offset, fit)
       IN /\ ~OutputExists(db, tr, sp)
          /\ InputsExist(db, tr, sp)
          /\ MonitorsError(fit) = "none"
          /\ species' = sp
          /\ db' = entry.db
          /\ offset' = entry.offset
          /\ ops' = Append(ops, entry.op)
          /\ batch_size' = triple[1]
          /\ n_batches' = triple[2]
          /\ remainder' = triple[3]
    /\ species_list' = Tail(species_list)
    /\ pc' = "stream"
    /\ memory_fit' = fit
    /\ nread' = 0
    /\ prefetched' = <<>>
    /\ index' = 0
    /\ consumed' = <<>>
    /\ UNCHANGED <<reader, resolve_vars, number_of_configurations, tr, dependency, err, chunk, attempts,
                   start_length, processed, finished, runs, run_list,
                   done_before, call, calls>>

(* the memory manager asks the store for the size of an absent input *)
AllocateNotFound ==
    /\ pc = "loop"
    /\ species_list # <<>>
    /\ LET sp == Head(species_list)
           entry == PrepareDatabaseEntry(db, offset, tr, sp, number_of_configurations)
       IN /\ ~OutputExists(db, tr, sp)
          /\ ~InputsExist(db, tr, sp)
          /\ species' = sp
          /\ db' = entry.db
          /\ offset' = entry.offset
          /\ ops' = Append(ops, entry.op)
    /\ species_list' = Tail(species_list)
    /\ pc' = "error"
    /\ err' = "NotFoundError"
    /\ UNCHANGED <<reader, resolve_vars, memory_fit, number_of_configurations, tr, dependency, batch_size, n_batches,
                   remainder, nread, prefetched, index, chunk, attempts,
                   consumed, start_length, processed, finished, runs, run_list,
                   done_before, call, calls>>

(* the dataset is allocated, then the memory manager finds the budget below *)
(* the cost of one configuration                                             *)
AllocateInsufficientMemory(fit) ==
    /\ pc = "loop"
    /\ species_list # <<>>
    /\ LET sp == Head(species_list)
           entry == PrepareDatabaseEntry(db, offset, tr, sp, number_of_configurations)
       IN /\ ~OutputExists(db, tr, sp)
          /\ InputsExist(db, tr, sp)
          /\ MonitorsError(fit) # "none"
          /\ species' = sp
          /\ db' = entry.db
          /\ offset' = entry.offset
          /\ ops' = Append(ops, entry.op)
          /\ err' = MonitorsError(fit)
    /\ memory_fit' = fit
    /\ species_list' = Tail(species_list)
    /\ pc' = "error"
    /\ UNCHANGED <<reader, resolve_vars, number_of_configurations, tr, dependency, batch_size,
                   n_batches, remainder, nread, prefetched, index, chunk,
                   attempts, consumed, start_length, processed, finished, runs,
                   run_list, done_before, call, calls>>

(* the prefetching runtime pulls the next batch out of the generator *)
ReadBatch ==
    /\ pc \in {"stream", "save", "retry"}
    /\ nread < BatchCount(n_batches, remainder)
    /\ Len(prefetched) < MaxPrefetch
    /\ LET range == BatchRange(nread, batch_size, n_batches, remainder, offset)
       IN prefetched' = Append(prefetched,
                               ReadBatchData(db, tr, species, range[1], range[2]))
    /\ nread' = nread + 1
    /\ UNCHANGED <<reader, resolve_vars, memory_fit, db, number_of_configurations, instance_vars, pc, err, species_list,
                   species, index, chunk, attempts, ops, consumed, start_length,
                   processed, finished, runs, run_list,
                   done_before, call, calls>>

(* variant: the newest prefetched batch is delivered first *)
NextBatchNewest(queue) == queue[Len(queue)]

(* which of the prefetched batches the loop receives next *)
NextBatch(queue) == Head(queue)

(* variant: the delivered batch stays in the buffer *)
RestBatchesKeep(queue) == queue

RestBatches(queue) == Tail(queue)

(* variant: index=index, not scaled by the batch size *)
SaveIndexNoScale(i, bs) == i

(* variant: enumeration taken to start at 1 *)
SaveIndexOffByOne(i, bs) == (i + 1) * bs

(* variant: index // batch_size in place of index * batch_size *)
SaveIndexDivided(i, bs) == i \div bs

(* index handed to _save_output for the batch with enumeration index i *)
SaveIndex(i, bs) == i * bs

(* loop body up to the call of _save_output *)
TransformBatch ==
    /\ pc = "stream"
    /\ prefetched # <<>>
    /\ LET batch_dict == NextBatch(prefetched)
           transformed_batch == transform_batch(tr, StripSpecies(batch_dict))
       IN /\ chunk' = [rows |-> transformed_batch,
                       index |-> SaveIndex(index, batch_size),
                       lo |-> batch_dict.lo]
          /\ consumed' = Append(consumed, <<batch_dict.lo, batch_dict.data_size>>)
    /\ prefetched' = RestBatches(prefetched)
    /\ index' = index + 1
    /\ attempts' = <<>>
    /\ pc' = "save"
    /\ UNCHANGED <<reader, resolve_vars, memory_fit, db, number_of_configurations, instance_vars, err, species_list,
                   species, nread, ops, start_length, processed, finished, runs, run_list,
                   done_before,
                   call, calls>>

Attempt(c, off) == [rows |-> c.rows, start_idx |-> SaveStart(c, off)]

Written(t, sp, c, off) ==
    Op("add_data", OutputPath(t, sp), SaveStart(c, off), Len(c.rows))

(* _save_output: the first add_data returns *)
SaveOk ==
    /\ pc = "save"
    /\ db' = SaveOutput(db, tr, species, chunk, offset)
    /\ attempts' = Append(attempts, Attempt(chunk, offset))
    /\ ops' = Append(ops, Written(tr, species, chunk, offset))
    /\ pc' = "stream"
    /\ UNCHANGED <<reader, resolve_vars, memory_fit, number_of_configurations, instance_vars, err, species_list, species,
                   nread, prefetched, index, chunk, consumed, start_length, processed,
                   finished, runs, run_list,
                   done_before, call, calls>>

(* _save_output: the first add_data raises OSError; sleep, then try again *)
SaveOSError ==
    /\ pc = "save"
    /\ attempts' = Append(attempts, Attempt(chunk, offset))
    /\ pc' = "retry"
    /\ UNCHANGED <<reader, resolve_vars, memory_fit, db, number_of_configurations, instance_vars, err, species_list,
                   species, nread, prefetched, index, chunk, ops, consumed,
                   start_length, processed, finished, runs, run_list,
                   done_before, call, calls>>

(* variant: the except clause loops back to itself *)
AfterSecondFailureRetry == "retry"

(* variant: the second failure is swallowed and the loop goes on *)
AfterSecondFailureContinue == "loop"

(* where _save_output goes after its second add_data raised *)
AfterSecondFailure == "error"

(* _save_output: the second add_data returns *)
RetryOk ==
    /\ pc = "retry"
    /\ db' = SaveOutput(db, tr, species, chunk, offset)
    /\ attempts' = Append(attempts, Attempt(chunk, offset))
    /\ ops' = Append(ops, Written(tr, species, chunk, offset))
    /\ pc' = "stream"
    /\ UNCHANGED <<reader, resolve_vars, memory_fit, number_of_configurations, instance_vars, err, species_list, species,
                   nread, prefetched, index, chunk, consumed, start_length, processed,
                   finished, runs, run_list,
                   done_before, call, calls>>

(* variant: the failed run deletes the dataset it was writing *)
RetryOSErrorRollback ==
    /\ pc = "retry"
    /\ attempts' = Append(attempts, Attempt(chunk, offset))
    /\ db' = [db EXCEPT ![OutputPath(tr, species)] = NoDataset]
    /\ pc' = "error"
    /\ err' = "OSError"
    /\ UNCHANGED <<reader, resolve_vars, memory_fit, number_of_configurations, instance_vars,
                   species_list, species, nread, prefetched, index, chunk, ops,
                   consumed, start_length, processed, finished, runs, run_list,
                   done_before, call, calls>>

(* _save_output: the second add_data raises too; nothing catches it *)
RetryOSError ==
    /\ pc = "retry"
    /\ attempts' = Append(attempts, Attempt(chunk, offset))
    /\ pc' = AfterSecondFailure
    /\ err' = IF AfterSecondFailure = "error" THEN "OSError" ELSE err
    /\ UNCHANGED <<reader, resolve_vars, memory_fit, db, number_of_configurations, instance_vars, species_list, species,
                   nread, prefetched, index, chunk, ops, consumed, start_length,
                   processed, finished, runs, run_list,
                   done_before, call, calls>>

(* the data set is exhausted: next species *)
(* variant: the iterator waits for a batch that never comes *)
EndOfStreamBlocked ==
    /\ pc = "stream"
    /\ prefetched = <<>>
    /\ nread >= BatchCount(n_batches, remainder)
    /\ UNCHANGED vars

EndOfStream ==
    /\ pc = "stream"
    /\ prefetched = <<>>
    /\ nread >= BatchCount(n_batches, remainder)
    /\ processed' = processed \cup {species}
    /\ finished' = finished \cup {<<tr, species>>}
    /\ pc' = "loop"
    /\ UNCHANGED <<reader, resolve_vars, memory_fit, db, number_of_configurations, instance_vars, err, species_list,
                   species, nread, prefetched, index, chunk, attempts, ops, consumed,
                   start_length, runs, run_list,
                   done_before, call, calls>>

(* the species loop is exhausted: run_transformation returns *)
Finish ==
    /\ pc = "loop"
    /\ species_list = <<>>
    /\ pc' = "done"
    /\ UNCHANGED <<reader, resolve_vars, memory_fit, db, number_of_configurations, instance_vars, err, species_list,
                   species, nread, prefetched, index, chunk, attempts, ops, consumed,
                   start_length, processed, finished, runs, run_list,
                   done_before, call, calls>>

Next ==
    \/ ExperimentAddData
    \/ \E t \in TransformationNames, list \in SpeciesLists : StartRun(t, list)
    \/ Skip
    \/ \E fit \in 0..MaxBatch : Allocate(fit)
    \/ AllocateNotFound
    \/ \E fit \in 0..MaxBatch : AllocateInsufficientMemory(fit)
    \/ ReadBatch
    \/ TransformBatch
    \/ SaveOk
    \/ SaveOSError
    \/ RetryOk
    \/ RetryOSError
    \/ EndOfStream
    \/ Finish

Spec == Init /\ [][Next]_vars

(* ------------------------ dependency resolution ------------------------ *)
SwitcherKeys ==
    {"Translational_Dipole_Moment", "Ionic_Current", "Integrated_Heat_Current",
     "Thermal_Flux", "Momentum_Flux", "Kinaci_Heat_Current"}

switcher_transformations(name) ==
    CASE name = "Translational_Dipole_Moment" -> "TranslationalDipoleMoment"
      [] name = "Ionic_Current" -> "IonicCurrent"
      [] name = "Integrated_Heat_Current" -> "IntegratedHeatCurrent"
      [] name = "Thermal_Flux" -> "ThermalFlux"
      [] name = "Momentum_Flux" -> "MomentumFlux"
      [] name = "Kinaci_Heat_Current" -> "KinaciIntegratedHeatCurrent"

_unwrap_choice(store) ==
    IF check_existence(store, <<"Box_Images">>) THEN "UnwrapViaIndices"
    ELSE "UnwrapCoordinates"

(* variant: switcher.get(argument, default) instead of raising *)
StringToFunctionDefault(store, argument) ==
    IF argument = "Unwrapped_Positions" THEN _unwrap_choice(store)
    ELSE IF argument \in SwitcherKeys THEN switcher_transformations(argument)
    ELSE "UnwrapCoordinates"

(* the class the name resolves to, or "KeyError" *)
_string_to_function(store, argument) ==
    IF argument = "Unwrapped_Positions" THEN _unwrap_choice(store)
    ELSE IF argument \in SwitcherKeys THEN switcher_transformations(argument)
    ELSE "KeyError"

(* experiment.perform_transformation: a full run of class t over all species, *)
(* each species streamed as one batch                                         *)
RECURSIVE perform_transformation(_, _, _, _)
perform_transformation(store, t, list, N) ==
    IF list = <<>> THEN [db |-> store, ops |-> <<>>, err |-> "none"]
    ELSE LET sp == Head(list)
             path == OutputPath(t, sp)
         IN IF check_existence(store, path)
            THEN perform_transformation(store, t, Tail(list), N)
            ELSE LET entry == PrepareDatabaseEntry(store, 0, t, sp, N)
                     size == Len(store[InputPaths(t, sp)[1]].data)
                     rows == transform_batch(t,
                                StripSpecies(ReadBatchData(store, t, sp, 0, size)))
                     rest == perform_transformation(
                                add_data(entry.db, path, rows, 0), t, Tail(list), N)
                 IN IF ~InputsExist(store, t, sp)
                    THEN [db |-> entry.db, ops |-> <<entry.op>>,
                          err |-> "NotFoundError"]
                    ELSE [db |-> rest.db,
                          ops |-> <<entry.op, Op("add_data", path, 0, Len(rows))>>
                                  \o rest.ops,
                          err |-> rest.err]

(* experiment.species: the species data was added for, in order *)
ExperimentSpecies(store) ==
    SelectSeq(Species, LAMBDA sp : check_existence(store, join_path(sp, "Positions")))

(* outcome of _resolve_dependencies(dep) *)
ResolveDependencies(store, dep, N) ==
    LET transformation == _string_to_function(store, dep)
    IN IF transformation = "KeyError"
       THEN [db |-> store, ops |-> <<>>, err |-> "KeyError", invoked |-> "none"]
       ELSE [invoked |-> transformation] @@
            perform_transformation(store, transformation, ExperimentSpecies(store), N)

(* variant: any(truth_array) instead of all(truth_array) *)
RunDependencyCheckAny(store, dep, N) ==
    LET listed == ExperimentSpecies(store)
    IN IF \E i \in 1..Len(listed) : check_existence(store, join_path(listed[i], dep))
       THEN [db |-> store, ops |-> <<>>, err |-> "none", invoked |-> "none",
             resolved |-> 0]
       ELSE [resolved |-> 1] @@ ResolveDependencies(store, dep, N)

(* outcome of _run_dependency_check() with self.dependency = dep; resolved *)
(* counts the calls of _resolve_dependencies                               *)
RunDependencyCheck(store, dep, N) ==
    LET listed == ExperimentSpecies(store)
    IN IF \A i \in 1..Len(listed) : check_existence(store, join_path(listed[i], dep))
       THEN [db |-> store, ops |-> <<>>, err |-> "none", invoked |-> "none",
             resolved |-> 0]
       ELSE [resolved |-> 1] @@ ResolveDependencies(store, dep, N)

(* ------------- methods called one at a time on one instance ------------ *)
DependencyNames == {"Unwrapped_Positions", "Translational_Dipole_Moment", "Pressure"}

(* Transformations.__init__ of a concrete class *)
Construct(t) ==
    /\ pc = "idle"
    /\ calls = 0
    /\ tr # t
    /\ tr' = t
    /\ dependency' = "none"
    /\ memory_fit' = Unset
    /\ offset' = 0
    /\ batch_size' = Unset
    /\ n_batches' = Unset
    /\ remainder' = Unset
    /\ call' = [NoCall EXCEPT !.name = "__init__", !.arg = t]
    /\ ops' = <<>>
    /\ err' = "none"
    /\ UNCHANGED <<reader, resolve_vars, db, number_of_configurations, pc, loop_vars, finished, calls>>

CallPrepareDatabaseEntry(sp) ==
    /\ pc = "idle"
    /\ tr # "none"
    /\ calls < MaxCalls
    /\ calls' = calls + 1
    /\ LET entry == PrepareDatabaseEntry(db, offset, tr, sp, number_of_configurations)
           path == OutputPath(tr, sp)
       IN /\ db' = entry.db
          /\ offset' = entry.offset
          /\ ops' = <<entry.op>>
          /\ call' = [name |-> "_prepare_database_entry", arg |-> sp,
                      existed |-> check_existence(db, path),
                      old_length |-> Len(db[path].data),
                      invoked |-> "none", resolved |-> 0]
    /\ err' = "none"
    /\ UNCHANGED <<reader, resolve_vars, memory_fit, number_of_configurations, tr, dependency, batch_size, n_batches,
                   remainder, pc, loop_vars, finished>>

CallPrepareMonitors(sp, fit) ==
    /\ pc = "idle"
    /\ tr # "none"
    /\ calls < MaxCalls
    /\ InputsExist(db, tr, sp)
    /\ calls' = calls + 1
    /\ memory_fit' = fit
    /\ LET triple == PrepareMonitors(db, InputPaths(tr, sp), offset, fit)
       IN /\ batch_size' = triple[1]
          /\ n_batches' = triple[2]
          /\ remainder' = triple[3]
    /\ call' = [NoCall EXCEPT !.name = "_prepare_monitors", !.arg = sp]
    /\ ops' = <<>>
    /\ err' = "none"
    /\ UNCHANGED <<reader, resolve_vars, db, number_of_configurations, tr, dependency, offset, pc,
                   loop_vars, finished>>

CallRunDependencyCheck(dep) ==
    /\ pc = "idle"
    /\ tr # "none"
    /\ calls < MaxCalls
    /\ calls' = calls + 1
    /\ dependency' = dep
    /\ LET out == RunDependencyCheck(db, dep, number_of_configurations)
       IN /\ db' = out.db
          /\ ops' = out.ops
          /\ err' = out.err
          /\ call' = [NoCall EXCEPT !.name = "_run_dependency_check", !.arg = dep,
                                    !.invoked = out.invoked,
                                    !.resolved = out.resolved]
    /\ UNCHANGED <<reader, resolve_vars, memory_fit, number_of_configurations, tr, offset, batch_size, n_batches,
                   remainder, pc, loop_vars, finished>>

NextMethods ==
    \/ ExperimentAddData
    \/ \E t \in TransformationNames : Construct(t)
    \/ \E sp \in SpeciesSet : CallPrepareDatabaseEntry(sp)
    \/ \E sp \in SpeciesSet, fit \in 1..MaxBatch : CallPrepareMonitors(sp, fit)
    \/ \E dep \in DependencyNames : CallRunDependencyCheck(dep)

SpecMethods == Init /\ [][NextMethods]_vars

(* --------- the dependency check on experiments of any content ---------- *)
(* a dataset a transformation left in the store *)
DerivedDataset(sp, n) ==
    [exists |-> TRUE, np |-> n_particles(sp), nd |-> PropertyNDims, data |-> Zeros(n)]

(* experiments holding the first k species, each with positions, with or   *)
(* without box images and with or without each derived dataset             *)
Stores ==
    {[p \in Paths |->
        IF p \notin held THEN NoDataset
        ELSE IF p[2] \in RawProperties THEN RawDataset(p[1], p[2], 1)
        ELSE DerivedDataset(p[1], 1)] :
     held \in {h \in SUBSET Paths :
                 \E k \in 0..Len(Species) :
                    \A p \in Paths :
                       /\ p \in h => \E i \in 1..k : Species[i] = p[1]
                       /\ (p[2] = "Positions" /\ \E i \in 1..k : Species[i] = p[1])
                             => p \in h}}

InitCheck ==
    /\ number_of_configurations = 1
    /\ db \in Stores
    /\ InitInstance
    /\ graph = NoDependencies

NextCheck ==
    \/ \E t \in TransformationNames : Construct(t)
    \/ \E dep \in DependencyNames : CallRunDependencyCheck(dep)

SpecCheck == InitCheck /\ [][NextCheck]_vars

(* an instance whose _prepare_database_entry was called directly is then run *)
AddDataBeforeRun == runs = 0 /\ ExperimentAddData

RunPrepared(list) == runs = 0 /\ tr # "none" /\ StartRun(tr, list)

NextInstance ==
    \/ AddDataBeforeRun
    \/ \E t \in TransformationNames : Construct(t)
    \/ \E sp \in SpeciesSet : CallPrepareDatabaseEntry(sp)
    \/ \E list \in SpeciesLists : RunPrepared(list)
    \/ Skip
    \/ \E fit \in 1..MaxBatch : Allocate(fit)
    \/ AllocateNotFound
    \/ ReadBatch
    \/ TransformBatch
    \/ SaveOk
    \/ EndOfStream
    \/ Finish

SpecInstance == Init /\ [][NextInstance]_vars

(* ------------- the driver under any triple handed to it ---------------- *)
(* what a memory manager may hand over: the triples of get_batch_size and,   *)
(* from one that breaks batch_size >= 1, triples with batch_size 0           *)
HandedTriples(store, data_path, off) ==
    {get_batch_size(store, data_path, off, fit) : fit \in 1..MaxBatch}
        \cup {<<0, nb, r>> : nb \in 0..1, r \in 0..1}

(* _prepare_database_entry, then _prepare_monitors stores the triple as is *)
AllocateHanded(triple) ==
    /\ pc = "loop"
    /\ species_list # <<>>
    /\ LET sp == Head(species_list)
           entry == PrepareDatabaseEntry(db, offset, tr, sp, number_of_configurations)
       IN /\ ~OutputExists(db, tr, sp)
          /\ InputsExist(db, tr, sp)
          /\ triple \in HandedTriples(entry.db, InputPaths(tr, sp), entry.offset)
          /\ species' = sp
          /\ db' = entry.db
          /\ offset' = entry.offset
          /\ ops' = Append(ops, entry.op)
    /\ batch_size' = triple[1]
    /\ n_batches' = triple[2]
    /\ remainder' = triple[3]
    /\ memory_fit' = triple[1]
    /\ species_list' = Tail(species_list)
    /\ pc' = "stream"
    /\ nread' = 0
    /\ prefetched' = <<>>
    /\ index' = 0
    /\ consumed' = <<>>
    /\ UNCHANGED <<reader, resolve_vars, number_of_configurations, tr, dependency, err, chunk,
                   attempts, start_length, processed, finished, runs, run_list,
                   done_before, call, calls>>

NextHanded ==
    \/ ExperimentAddData
    \/ \E t \in TransformationNames, list \in SpeciesLists : StartRun(t, list)
    \/ Skip
    \/ \E bs \in 0..MaxBatch, nb \in 0..MaxConf, r \in 0..MaxBatch :
          AllocateHanded(<<bs, nb, r>>)
    \/ AllocateNotFound
    \/ ReadBatch
    \/ TransformBatch
    \/ SaveOk
    \/ EndOfStream
    \/ Finish

SpecHanded == Init /\ [][NextHanded]_vars

(* -------------------- the run under fair scheduling -------------------- *)
(* add_data and transform_batch return, and a batch of one configuration   *)
(* or more fits in memory                                                  *)
LoopStep ==
    \/ Skip
    \/ \E fit \in 1..MaxBatch : Allocate(fit)
    \/ AllocateNotFound
    \/ TransformBatch
    \/ SaveOk
    \/ EndOfStream
    \/ Finish

NextFair ==
    \/ ExperimentAddData
    \/ \E t \in TransformationNames, list \in SpeciesLists : StartRun(t, list)
    \/ LoopStep
    \/ ReadBatch

(* the loop goes on while it can, and so does the thread that reads ahead *)
SpecFair == Init /\ [][NextFair]_vars /\ WF_vars(LoopStep) /\ WF_vars(ReadBatch)

(* ------------- _save_output under any exception of add_data ------------ *)
(* what the store may raise on a write *)
AddDataExceptions == {"OSError", "ValueError", "KeyError"}

(* variant: a bare except *)
RetriedAlways(exception) == TRUE

(* except OSError: the handler that waits and writes again *)
Retried(exception) == exception = "OSError"

(* the first add_data of _save_output raises *)
SaveRaises(exception) ==
    /\ pc = "save"
    /\ attempts' = Append(attempts, Attempt(chunk, offset))
    /\ call' = [NoCall EXCEPT !.name = "add_data", !.arg = exception]
    /\ pc' = IF Retried(exception) THEN "retry" ELSE "error"
    /\ err' = IF Retried(exception) THEN err ELSE exception
    /\ UNCHANGED <<reader, resolve_vars, memory_fit, db, number_of_configurations,
                   instance_vars, species_list, species, nread, prefetched, index,
                   chunk, ops, consumed, start_length, processed, finished, runs,
                   run_list, done_before, calls>>

RunOnce(t, list) == runs = 0 /\ StartRun(t, list)

NextSave ==
    \/ AddDataBeforeRun
    \/ \E t \in TransformationNames, list \in SpeciesLists : RunOnce(t, list)
    \/ \E fit \in 1..MaxBatch : Allocate(fit)
    \/ AllocateNotFound
    \/ ReadBatch
    \/ TransformBatch
    \/ SaveOk
    \/ \E exception \in AddDataExceptions : SaveRaises(exception)
    \/ RetryOk
    \/ RetryOSError
    \/ EndOfStream
    \/ Finish

SpecSave == Init /\ [][NextSave]_vars

(* ------------------- the store called on its own ----------------------- *)
(* variant: an existing path is created anew *)
DatabaseAddDatasetOverwrite(store, path, shape) ==
    [db |-> add_dataset(store, path, shape), err |-> "none"]

(* add_dataset with its failure on a path that already exists *)
DatabaseAddDataset(store, path, shape) ==
    IF check_existence(store, path) THEN [db |-> store, err |-> "AllocationError"]
    ELSE [db |-> add_dataset(store, path, shape), err |-> "none"]

(* variant: the resized dataset starts from zeros *)
DatabaseResizeDatasetCleared(store, path, shape) ==
    IF ~check_existence(store, path) THEN [db |-> store, err |-> "NotFoundError"]
    ELSE [db |-> [store EXCEPT ![path].data = Zeros(Len(@) + shape[2])],
          err |-> "none"]

(* resize_dataset with its failure on an absent path *)
DatabaseResizeDataset(store, path, shape) ==
    IF ~check_existence(store, path) THEN [db |-> store, err |-> "NotFoundError"]
    ELSE [db |-> resize_dataset(store, path, shape), err |-> "none"]

StorePaths == {join_path("Na", "Positions"), join_path("Na", "Unwrapped_Positions")}

(* valid shapes (n_particles, n_configurations, n_dims) *)
Shapes == {<<np, n, nd>> : np \in 1..2, n \in 0..MaxConf, nd \in {1, PropertyNDims}}

StoreCall(name, path, shape) ==
    [name |-> name, arg |-> <<path, shape>>, existed |-> check_existence(db, path),
     old_length |-> Len(db[path].data), invoked |-> "none", resolved |-> 0]

CallAddDataset(path, shape) ==
    /\ pc = "idle"
    /\ calls < MaxStoreCalls
    /\ calls' = calls + 1
    /\ LET out == DatabaseAddDataset(db, path, shape)
       IN db' = out.db /\ err' = out.err
    /\ call' = StoreCall("add_dataset", path, shape)
    /\ UNCHANGED <<reader, resolve_vars, memory_fit, number_of_configurations,
                   instance_vars, pc, loop_vars, ops, finished>>

CallResizeDataset(path, amount) ==
    /\ pc = "idle"
    /\ calls < MaxStoreCalls
    /\ calls' = calls + 1
    /\ LET shape == <<db[path].np, amount, db[path].nd>>
           out == DatabaseResizeDataset(db, path, shape)
       IN /\ db' = out.db
          /\ err' = out.err
          /\ call' = StoreCall("resize_dataset", path, shape)
    /\ UNCHANGED <<reader, resolve_vars, memory_fit, number_of_configurations,
                   instance_vars, pc, loop_vars, ops, finished>>

NextStore ==
    \/ \E path \in StorePaths, shape \in Shapes : CallAddDataset(path, shape)
    \/ \E path \in StorePaths, amount \in 0..MaxConf : CallResizeDataset(path, amount)

SpecStore == Init /\ [][NextStore]_vars

(* ----------------------- LAMMPSFluxFile reader ------------------------- *)
n_header_lines == 2

(* a line of the file: its number of columns and the time step it holds *)
Line(cols, step) == <<cols, step>>

RECURSIVE Flatten(_)
Flatten(chunks) ==
    IF chunks = <<>> THEN <<>> ELSE Head(chunks) \o Flatten(Tail(chunks))

(* a log file: the header, a block of data lines and possibly a line of log *)
(* info followed by a second block                                          *)
FluxFiles ==
    {[i \in 1..n_header_lines |-> Line(3, 0)]
        \o [i \in 1..n |-> Line(3, i)]
        \o [i \in 1..info |-> Line(1, 0)]
        \o [i \in 1..more |-> Line(3, n + i)] :
     n \in 1..MaxFluxSteps, info \in 0..1, more \in 0..1}

skip_n_lines(pos, n) == pos + n

read_n_lines(file, pos, n) == SubSeq(file, pos + 1, pos + n)

(* the lines of the first block: the first data line and every line after  *)
(* it up to the first one with another number of columns                    *)
(* variant: a line of another width is passed over instead of ending the count *)
RECURSIVE CountStepsContinue(_, _, _)
CountStepsContinue(file, pos, n_columns) ==
    IF pos >= Len(file) THEN 0
    ELSE (IF file[pos + 1][1] = n_columns THEN 1 ELSE 0)
         + CountStepsContinue(file, pos + 1, n_columns)

RECURSIVE CountSteps(_, _, _)
CountSteps(file, pos, n_columns) ==
    IF pos >= Len(file) \/ file[pos + 1][1] # n_columns THEN 0
    ELSE 1 + CountSteps(file, pos + 1, n_columns)

GetMetadataSteps(file) ==
    LET pos == skip_n_lines(0, n_header_lines)
        first_data_line == read_n_lines(file, pos, 1)[1]
    IN 1 + CountSteps(file, pos + 1, first_data_line[1])

(* species_list of the metadata: one SpeciesInfo *)
ObservablesOnly == <<[name |-> "Observables", n_particles |-> 1]>>

(* one configuration is one line of the file *)
read_process_n_configurations(file, pos, n) == read_n_lines(file, pos, n * 1)

(* variant: a last chunk is yielded whatever is left *)
YieldsRemainderAlways(n_configs_remainder) == TRUE

YieldsRemainder(n_configs_remainder) == n_configs_remainder > 0

experiment_vars ==
    <<db, number_of_configurations, instance_vars, pc, err, loop_vars, ops,
      finished, call, calls, memory_fit, resolve_vars>>

GetMetadata(file, size) ==
    /\ reader.state = "none"
    /\ reader' = [state |-> "ready", file |-> file,
                  species_list |-> ObservablesOnly,
                  n_configurations |-> GetMetadataSteps(file),
                  batch_size |-> size]
    /\ UNCHANGED experiment_vars

GetConfigurationsGenerator ==
    /\ reader.state = "ready"
    /\ reader' = [state |-> "batches", file |-> reader.file,
                  species_list |-> reader.species_list,
                  n_configurations |-> reader.n_configurations,
                  batch_size |-> reader.batch_size,
                  n_batches |-> reader.n_configurations \div reader.batch_size,
                  n_configs_remainder |-> reader.n_configurations % reader.batch_size,
                  pos |-> skip_n_lines(0, n_header_lines),
                  done |-> 0,
                  yielded |-> <<>>]
    /\ UNCHANGED experiment_vars

YieldBatch ==
    /\ reader.state = "batches"
    /\ reader.done < reader.n_batches
    /\ reader' = [reader EXCEPT
                    !.yielded = Append(@, read_process_n_configurations(
                                    reader.file, reader.pos, reader.batch_size)),
                    !.pos = @ + reader.batch_size,
                    !.done = @ + 1]
    /\ UNCHANGED experiment_vars

YieldRemainder ==
    /\ reader.state = "batches"
    /\ reader.done = reader.n_batches
    /\ YieldsRemainder(reader.n_configs_remainder)
    /\ reader' = [reader EXCEPT
                    !.yielded = Append(@, read_process_n_configurations(
                                    reader.file, reader.pos, reader.n_configs_remainder)),
                    !.pos = @ + reader.n_configs_remainder,
                    !.state = "remainder"]
    /\ UNCHANGED experiment_vars

CloseFile ==
    /\ \/ reader.state = "remainder"
       \/ /\ reader.state = "batches"
          /\ reader.done = reader.n_batches
          /\ ~YieldsRemainder(reader.n_configs_remainder)
    /\ reader' = [reader EXCEPT !.state = "closed"]
    /\ UNCHANGED experiment_vars

NextFlux ==
    \/ \E file \in FluxFiles, size \in 1..MaxFluxBatch : GetMetadata(file, size)
    \/ GetConfigurationsGenerator
    \/ YieldBatch
    \/ YieldRemainder
    \/ CloseFile

SpecFlux == Init /\ [][NextFlux]_vars

(* ------------------ FileProcessor._extract_properties ------------------- *)
(* an entry of the correspondence dictionary: a column name, or the integer *)
(* column the name was replaced by                                          *)
Name(s) == [kind |-> "str", val |-> s]

Column(i) == [kind |-> "int", val |-> i]

ColumnNames == {"id", "x", "y", "z", "vx", "q"}

(* property label -> the names of its coordinates, in order *)
PropertyLabels ==
    [Positions |-> <<Name("x"), Name("y"), Name("z")>>,
     Velocities |-> <<Name("vx"), Name("vy"), Name("vz")>>,
     Charge |-> <<Name("q")>>]

CorrespondenceDicts ==
    {[label \in labels |-> PropertyLabels[label]] : labels \in SUBSET DOMAIN PropertyLabels}

HeaderLines == UNION {[1..n -> ColumnNames] : n \in 0..MaxColumns}

(* {variable: idx for idx, variable in enumerate(header_line)}: the last    *)
(* column of a name, counted from 0                                         *)
_get_column_properties(header_line) ==
    [variable \in {header_line[i] : i \in 1..Len(header_line)} |->
        (CHOOSE i \in 1..Len(header_line) :
            /\ header_line[i] = variable
            /\ \A j \in 1..Len(header_line) : header_line[j] = variable => j <= i) - 1]

(* first loop: every name found in the header is replaced by its column *)
ReplaceNames(database_correspondence_dict, column_dict_properties) ==
    [property_label \in DOMAIN database_correspondence_dict |->
        [idx \in 1..Len(database_correspondence_dict[property_label]) |->
            LET property_name == database_correspondence_dict[property_label][idx]
            IN IF property_name.kind = "str"
                  /\ property_name.val \in DOMAIN column_dict_properties
               THEN Column(column_dict_properties[property_name.val])
               ELSE property_name]]

(* second loop: the labels whose entries are all integers *)
CollectColumns(replaced, labels) ==
    [property_label \in labels |->
        [idx \in 1..Len(replaced[property_label]) |-> replaced[property_label][idx].val]]

(* variant: any(...) instead of all(...) *)
ExtractPropertiesAny(database_correspondence_dict, column_dict_properties) ==
    LET replaced == ReplaceNames(database_correspondence_dict, column_dict_properties)
    IN CollectColumns(replaced,
          {property_label \in DOMAIN replaced :
              \E idx \in 1..Len(replaced[property_label]) :
                  replaced[property_label][idx].kind = "int"})

_extract_properties(database_correspondence_dict, column_dict_properties) ==
    LET replaced == ReplaceNames(database_correspondence_dict, column_dict_properties)
    IN CollectColumns(replaced,
          {property_label \in DOMAIN replaced :
              \A idx \in 1..Len(replaced[property_label]) :
                  replaced[property_label][idx].kind = "int"})

GetColumnProperties(header_line) ==
    /\ reader.state = "none"
    /\ reader' = [state |-> "header", header_line |-> header_line,
                  column_dict_properties |-> _get_column_properties(header_line)]
    /\ UNCHANGED experiment_vars

ExtractProperties(database_correspondence_dict) ==
    /\ reader.state = "header"
    /\ reader' = [state |-> "properties", header_line |-> reader.header_line,
                  column_dict_properties |-> reader.column_dict_properties,
                  database_correspondence_dict |-> database_correspondence_dict,
                  trajectory_properties |->
                      _extract_properties(database_correspondence_dict,
                                          reader.column_dict_properties)]
    /\ UNCHANGED experiment_vars

NextExtract ==
    \/ \E header_line \in HeaderLines : GetColumnProperties(header_line)
    \/ \E dict \in CorrespondenceDicts : ExtractProperties(dict)

SpecExtract == Init /\ [][NextExtract]_vars

(* ---------------- nested resolution of dependencies -------------------- *)
(* dependencies a concrete class may declare *)
DeclaredDependencies ==
    {"none", "Unwrapped_Positions", "Translational_Dipole_Moment", "Pressure"}

Graphs == [TransformationNames -> DeclaredDependencies]

InitResolve == InitExperiment /\ graph \in Graphs

Frame(dep, class) == [dep |-> dep, class |-> class]

Top == stack[Len(stack)]

DependencyMissing(store, dep) ==
    \E i \in 1..Len(Species) : ~check_existence(store, join_path(Species[i], dep))

(* an instance of class t calls _run_dependency_check() *)
CheckDependency(t) ==
    /\ pc = "idle"
    /\ stack = <<>>
    /\ graph[t] # "none"
    /\ tr' = t
    /\ dependency' = graph[t]
    /\ stack' = IF DependencyMissing(db, graph[t])
                THEN <<Frame(graph[t], "none")>> ELSE <<>>
    /\ call' = [NoCall EXCEPT !.name = "_run_dependency_check", !.arg = graph[t]]
    /\ ops' = <<>>
    /\ err' = "none"
    /\ UNCHANGED <<reader, db, number_of_configurations, offset, batch_size, n_batches,
                   remainder, pc, loop_vars, finished, calls, memory_fit, graph>>

(* _resolve_dependencies: the name is not in the table *)
ResolveKeyError ==
    /\ stack # <<>>
    /\ Top.class = "none"
    /\ _string_to_function(db, Top.dep) = "KeyError"
    /\ stack' = <<>>
    /\ err' = "KeyError"
    /\ UNCHANGED <<reader, db, number_of_configurations, instance_vars, pc, loop_vars, ops,
                   finished, call, calls, memory_fit, graph>>

(* perform_transformation: the resolved class has its own dependency at hand *)
NestedCheckPasses ==
    /\ stack # <<>>
    /\ Top.class = "none"
    /\ LET transformation == _string_to_function(db, Top.dep)
       IN /\ transformation # "KeyError"
          /\ graph[transformation] = "none"
                \/ ~DependencyMissing(db, graph[transformation])
          /\ stack' = [stack EXCEPT ![Len(stack)].class = transformation]
    /\ UNCHANGED <<reader, db, number_of_configurations, instance_vars, pc, err, loop_vars,
                   ops, finished, call, calls, memory_fit, graph>>

(* perform_transformation: the resolved class misses its own dependency *)
NestedResolve ==
    /\ stack # <<>>
    /\ Top.class = "none"
    /\ Len(stack) < MaxDepth
    /\ LET transformation == _string_to_function(db, Top.dep)
       IN /\ transformation # "KeyError"
          /\ graph[transformation] # "none"
          /\ DependencyMissing(db, graph[transformation])
          /\ stack' = Append([stack EXCEPT ![Len(stack)].class = transformation],
                             Frame(graph[transformation], "none"))
    /\ UNCHANGED <<reader, db, number_of_configurations, instance_vars, pc, err, loop_vars,
                   ops, finished, call, calls, memory_fit, graph>>

(* perform_transformation: the resolved class runs; the frame returns *)
RunResolved ==
    /\ stack # <<>>
    /\ Top.class # "none"
    /\ LET out == perform_transformation(db, Top.class, Species,
                                         number_of_configurations)
       IN /\ db' = out.db
          /\ ops' = ops \o out.ops
          /\ err' = out.err
          /\ stack' = IF out.err = "none" THEN SubSeq(stack, 1, Len(stack) - 1)
                      ELSE <<>>
    /\ call' = [call EXCEPT !.invoked = Top.class]
    /\ UNCHANGED <<reader, number_of_configurations, instance_vars, pc, loop_vars, finished,
                   calls, memory_fit, graph>>

(* the experiment grows between resolutions, not inside one *)
AddDataResolved == stack = <<>> /\ ExperimentAddData

NextResolve ==
    \/ AddDataResolved
    \/ \E t \in TransformationNames : CheckDependency(t)
    \/ ResolveKeyError
    \/ NestedCheckPasses
    \/ NestedResolve
    \/ RunResolved

SpecResolve == InitResolve /\ [][NextResolve]_vars

(* ------------------------------ properties ----------------------------- *)
Running == pc \in {"loop", "stream", "save", "retry"}

InputsFull(t, sp) ==
    \A i \in 1..Len(input_properties(t)) :
        /\ check_existence(db, InputPaths(t, sp)[i])
        /\ Len(db[InputPaths(t, sp)[i]].data) = number_of_configurations

(* the transform applied once to the whole input of a species *)
FullTransform(t, sp) ==
    transform_batch(t, StripSpecies(ReadBatchData(db, t, sp, 0, number_of_configurations)))

LastOp == ops[Len(ops)]

Stored(path, lo, n) == SubSeq(db[path].data, lo + 1, lo + n)

(* C1: for a transform acting on each configuration on its own, every      *)
(* species a run streamed to the end holds, whatever batch size was chosen, *)
(* exactly the transform of its whole un-batched input.                     *)
C1_BatchSizeIndependence ==
    pc # "idle" =>
        \A sp \in processed :
            (~Cumulative(tr) /\ InputsFull(tr, sp)) =>
                db[OutputPath(tr, sp)].data = FullTransform(tr, sp)

C1_Witness ==
    /\ pc = "done"
    /\ ~Cumulative(tr)
    /\ species \in processed
    /\ InputsFull(tr, species)
    /\ number_of_configurations >= 3
    /\ n_batches >= 1
    /\ remainder >= 1

(* C2: the triple _prepare_monitors stores satisfies                        *)
(* n_batches * batch_size + remainder = total - offset, 0 <= remainder <    *)
(* batch_size, for every offset <= total and batch_size >= 1.               *)
C2_BatchingTriple ==
    call.name = "_prepare_monitors" =>
        LET total == Len(db[InputPaths(tr, call.arg)[1]].data)
        IN (offset <= total) =>
              /\ batch_size >= 1
              /\ n_batches * batch_size + remainder = total - offset
              /\ 0 <= remainder
              /\ remainder < batch_size

C2_Witness ==
    /\ call.name = "_prepare_monitors"
    /\ offset > 0
    /\ offset < Len(db[InputPaths(tr, call.arg)[1]].data)
    /\ batch_size > 1
    /\ n_batches >= 1

(* C3: the batches the loop consumes are n_batches ranges of batch_size     *)
(* starting at offset + i*batch_size, then one range of length remainder    *)
(* iff remainder > 0; contiguous and strictly increasing.                   *)
C3_BatchSequence ==
    /\ \A k \in 1..Len(consumed) :
          /\ k <= n_batches =>
                consumed[k] = <<offset + (k - 1) * batch_size, batch_size>>
          /\ k > n_batches =>
                /\ k = n_batches + 1
                /\ remainder > 0
                /\ consumed[k] = <<offset + n_batches * batch_size, remainder>>
          /\ k > 1 => consumed[k][1] = consumed[k - 1][1] + consumed[k - 1][2]
    /\ (pc = "loop" /\ species \in processed) =>
          Len(consumed) = n_batches + _remainder_to_binary(remainder)

C3_Witness ==
    /\ pc = "loop"
    /\ species \in processed
    /\ Len(consumed) = 2
    /\ n_batches = 1
    /\ remainder = 1

(* C4: the result of the batch with enumeration index i is written at       *)
(* i * batch_size + offset, which is where its input was read from.         *)
C4_WriteIndex ==
    (pc = "stream" /\ index > 0 /\ attempts # <<>>) =>
        /\ LastOp = Op("add_data", OutputPath(tr, species),
                       (index - 1) * batch_size + offset, Len(chunk.rows))
        /\ LastOp.start = chunk.lo
        /\ Stored(OutputPath(tr, species), chunk.lo, Len(chunk.rows)) = chunk.rows

C4_Witness ==
    /\ pc = "stream"
    /\ index = 2
    /\ attempts # <<>>
    /\ batch_size = 2
    /\ LastOp.start = 2

(* C5: a run over species this transformation has already finished writes   *)
(* nothing: no add_dataset, resize_dataset or add_data, every dataset kept.  *)
C5_Idempotence ==
    [][pc' # "idle" =>
          /\ \A sp \in done_before' :
                db'[OutputPath(tr', sp)] = db[OutputPath(tr', sp)]
          /\ \A k \in 1..Len(ops') : ops'[k].path[1] \notin done_before'
          /\ (run_list' \subseteq done_before') => (ops' = <<>> /\ db' = db)]_vars

C5_Witness ==
    /\ pc = "done"
    /\ run_list # {}
    /\ run_list \subseteq done_before
    /\ ops = <<>>

(* C6: rerunning over an output of length L < N that an earlier run of the  *)
(* class finished resizes it by N - L and writes only [L, N).               *)
C6_ExtensionCorrectness ==
    pc = "done" =>
        \A sp \in run_list :
            LET L == start_length[sp]
                N == number_of_configurations
                path == OutputPath(tr, sp)
            IN (sp \in done_before /\ L >= 0 /\ L < N) =>
                  /\ Len(db[path].data) = N
                  /\ \E k \in 1..Len(ops) : ops[k] = Op("resize_dataset", path, 0, N - L)
                  /\ \A k \in 1..Len(ops) :
                        (ops[k].op = "add_data" /\ ops[k].path = path) => ops[k].start >= L

(* C7: after _prepare_database_entry, offset is 0 for a newly created       *)
(* dataset and the prior configuration length for an extended one.          *)
C7_OffsetAfterPrepare ==
    call.name = "_prepare_database_entry" =>
        offset = IF call.existed THEN call.old_length ELSE 0

(* C8: one chunk is tried at most twice, both times with the same rows and  *)
(* start index; a second failure leaves as OSError; a success after one     *)
(* failure completes the write.                                             *)
C8_RetryOnce ==
    /\ Len(attempts) <= 2
    /\ Running => \A k \in 1..Len(attempts) : attempts[k] = Attempt(chunk, offset)
    /\ pc = "save" => attempts = <<>>
    /\ pc = "retry" => Len(attempts) = 1
    /\ (pc = "error" /\ err = "OSError") => Len(attempts) = 2
    /\ (pc = "stream" /\ index > 0 /\ attempts # <<>>) =>
          /\ LastOp = Written(tr, species, chunk, offset)
          /\ Stored(OutputPath(tr, species), attempts[Len(attempts)].start_idx,
                    Len(chunk.rows)) = chunk.rows

C8_Witness ==
    /\ pc = "stream"
    /\ index > 0
    /\ Len(attempts) = 2
    /\ Len(chunk.rows) > 0

Resolvable(prop) == _string_to_function(db, prop) # "KeyError"

(* C9: a run whose input is absent but resolvable first gets the            *)
(* prerequisite run, then proceeds: while the input of a species is still    *)
(* absent the run has neither failed nor touched that species' output.       *)
C9_PrerequisiteFirst ==
    (pc # "idle" /\ tr # "none") =>
        \A sp \in run_list, i \in 1..Len(input_properties(tr)) :
            (/\ Resolvable(input_properties(tr)[i])
             /\ ~check_existence(db, join_path(sp, input_properties(tr)[i]))) =>
                /\ pc # "error"
                /\ \A k \in 1..Len(ops) : ops[k].path[1] # sp

Known(dep) == dep = "Unwrapped_Positions" \/ dep \in SwitcherKeys

(* C10: resolving a name that is neither Unwrapped_Positions nor a key of    *)
(* the table raises, invokes no transformation and leaves the store as is.   *)
C10_UnknownDependency ==
    [][(call'.name = "_run_dependency_check" /\ calls' = calls + 1 /\ ~Known(call'.arg)) =>
          /\ err' = "KeyError"
          /\ call'.invoked = "none"
          /\ ops' = <<>>
          /\ db' = db]_vars

C10_Witness ==
    /\ call.name = "_run_dependency_check"
    /\ call.arg = "Pressure"
    /\ err = "KeyError"
    /\ \E sp \in SpeciesSet : check_existence(db, join_path(sp, "Unwrapped_Positions"))

BoxImagesStored == \E sp \in SpeciesSet : check_existence(db, join_path(sp, "Box_Images"))

(* C11: resolving Unwrapped_Positions invokes UnwrapViaIndices iff a         *)
(* Box_Images dataset is in the store, UnwrapCoordinates otherwise; every     *)
(* other known name invokes its entry of the static table.                    *)
C11_UnwrapChoice ==
    (call.name = "_run_dependency_check" /\ call.invoked # "none") =>
        /\ call.arg = "Unwrapped_Positions" =>
              call.invoked = IF BoxImagesStored THEN "UnwrapViaIndices"
                             ELSE "UnwrapCoordinates"
        /\ call.arg \in SwitcherKeys => call.invoked = switcher_transformations(call.arg)

(* C12: dependency resolution is guarded against cycles.  Resolution that    *)
(* never follows a cycle nests at most one _resolve_dependencies frame per    *)
(* resolvable name (Unwrapped_Positions and the keys of the table); a         *)
(* visited set or depth limit ends anything deeper in an error.               *)
C12_ResolutionGuarded == Len(stack) <= Cardinality(SwitcherKeys) + 1

OpSpecies(k) == ops[k].path[1]

WritesOf(sp) == {k \in 1..Len(ops) : ops[k].op = "add_data" /\ OpSpecies(k) = sp}

(* C13: species are processed one after the other.  The store mutations of   *)
(* one species are contiguous and start with its allocation; a later species  *)
(* is touched only after the earlier one was streamed to its end; batches     *)
(* read ahead belong to the species being streamed; the writes of one         *)
(* species go to strictly increasing configuration indices.                   *)
C13_SequentialSpecies ==
    /\ \A j \in 1..Len(ops) :
          \A k \in (j + 1)..Len(ops) :
             IF OpSpecies(j) = OpSpecies(k)
             THEN /\ OpSpecies(k - 1) = OpSpecies(j)
                  /\ ops[j].op = "add_dataset" \/ ops[j].start < ops[k].start
                  /\ ops[k].op = "add_data"
             ELSE /\ OpSpecies(j) \in processed
                  /\ ops[k - 1].op = "add_data" \/ OpSpecies(k - 1) = OpSpecies(k)
    /\ pc \in {"loop", "done"} => prefetched = <<>>
    /\ Running =>
          \A k \in 1..Len(prefetched) :
              \A p \in DOMAIN prefetched[k].data : p[1] = species
    /\ (pc = "loop" /\ species \in processed) =>
          Cardinality(WritesOf(species)) = BatchCount(n_batches, remainder)

C13_Witness ==
    /\ pc = "done"
    /\ processed = SpeciesSet
    /\ \A sp \in SpeciesSet : Cardinality(WritesOf(sp)) >= 2

Streaming == pc \in {"stream", "save", "retry"}

(* C14: whatever the reader and the loop do in between, the batches reach     *)
(* transform_batch once each and in batch order: the delivered ones are the    *)
(* first index batches, the ones read ahead are the next ones in order, and    *)
(* the k-th write of the species is the result of the k-th batch.              *)
C14_InOrderDelivery ==
    Streaming =>
        /\ Len(consumed) = index
        /\ nread = index + Len(prefetched)
        /\ \A k \in 1..index :
              consumed[k] = BatchRange(k - 1, batch_size, n_batches, remainder, offset)
        /\ \A k \in 1..Len(prefetched) :
              <<prefetched[k].lo, prefetched[k].data_size>> =
                  BatchRange(index + k - 1, batch_size, n_batches, remainder, offset)
        /\ LET written == WritesOf(species)
           IN  /\ Cardinality(written) = IF pc = "stream" THEN index ELSE index - 1
               /\ \A k \in written :
                     ops[k].start = consumed[Cardinality({m \in written : m <= k})][1]

C14_Witness ==
    /\ pc = "save"
    /\ index = 2
    /\ Len(prefetched) = 1
    /\ prefetched[1].lo = 2
    /\ chunk.lo = 1
    /\ Cardinality(WritesOf(species)) = 1

(* C15: the reader is at most one batch ahead: never more than one batch      *)
(* read from the store and waiting while another is transformed or written.   *)
C15_LookAheadOne == pc \in {"save", "retry"} => Len(prefetched) <= 1

NothingLeft ==
    /\ Streaming \/ (pc = "loop" /\ species \in processed)
    /\ Len(db[InputPaths(tr, species)[1]].data) = offset

(* C16: when the input holds no configuration beyond offset, the triple has   *)
(* n_batches = 0 and remainder = 0 and the loop body never runs for that       *)
(* species: nothing is read, transformed or written after its allocation.     *)
C16_NothingLeft ==
    NothingLeft =>
        /\ n_batches = 0
        /\ remainder = 0
        /\ pc \in {"stream", "loop"}
        /\ nread = 0
        /\ prefetched = <<>>
        /\ consumed = <<>>
        /\ index = 0
        /\ WritesOf(species) = {}
        /\ LastOp.op = "add_dataset"
        /\ LastOp.path = OutputPath(tr, species)

C16_Witness ==
    /\ NothingLeft
    /\ pc = "loop"
    /\ species_list = <<>>
    /\ offset > 0
    /\ LastOp = Op("add_dataset", OutputPath(tr, species), 0, number_of_configurations)

C18_ZeroBatchSizeRejected ==
    (/\ Streaming
     /\ batch_size = 0
     /\ Len(db[InputPaths(tr, species)[1]].data) > offset) =>
        /\ index = 0
        /\ WritesOf(species) = {}

LaterSpecies == {species_list[i] : i \in 1..Len(species_list)}

Untouched(sp) ==
    /\ \A k \in 1..Len(ops) : OpSpecies(k) # sp
    /\ IF start_length[sp] < 0 THEN ~check_existence(db, OutputPath(tr, sp))
       ELSE Len(db[OutputPath(tr, sp)].data) = start_length[sp]

(* C19: a fatal error ends the species loop.  A second failed write leaves    *)
(* the run as OSError; once a run has failed, the species still in the list    *)
(* have no dataset allocated and no write issued, and the failed run takes     *)
(* no further step.                                                            *)
C19_ErrorAbortsLoop ==
    [][/\ (pc = "retry" /\ pc' # "retry" /\ ops' = ops) =>
             (pc' = "error" /\ err' = "OSError")
       /\ pc' = "error" => (\A sp \in LaterSpecies : Untouched(sp))'
       /\ pc = "error" => (runs' = runs + 1 \/ (pc' = "idle" /\ ops' = ops))]_vars

C19_Witness ==
    /\ pc = "error"
    /\ err = "OSError"
    /\ species = "Na"
    /\ species_list = <<"Cl">>
    /\ ~check_existence(db, OutputPath(tr, "Cl"))
    /\ Len(attempts) = 2

BatchResult(k) ==
    transform_batch(tr, StripSpecies(
        ReadBatchData(db, tr, species, consumed[k][1], consumed[k][2])))

(* C20: a run that fails while writing batch k leaves the output dataset in   *)
(* place at its allocated length, with the results of batches 0..k-1 stored    *)
(* where they were written and the range of batch k untouched.                 *)
C20_NoRollback ==
    (pc = "error" /\ err = "OSError") =>
        LET path == OutputPath(tr, species)
            k == Len(consumed)
        IN /\ check_existence(db, path)
           /\ Len(db[path].data) = number_of_configurations
           /\ Cardinality(WritesOf(species)) = k - 1
           /\ \A j \in 1..(k - 1) :
                 Stored(path, consumed[j][1], consumed[j][2]) = BatchResult(j)
           /\ Stored(path, consumed[k][1], consumed[k][2]) = Zeros(consumed[k][2])

C20_Witness ==
    /\ pc = "error"
    /\ err = "OSError"
    /\ Len(consumed) = 3
    /\ Cumulative(tr)
    /\ Stored(OutputPath(tr, species), 0, 2) = BatchResult(1) \o BatchResult(2)

(* C21: whatever is called, a dataset keeps the n_particles and n_dims it     *)
(* was created with and its configuration axis never gets shorter.            *)
C21_ShapeKept ==
    [][\A p \in Paths :
          db[p].exists =>
             /\ db'[p].exists
             /\ db'[p].np = db[p].np
             /\ db'[p].nd = db[p].nd
             /\ Len(db'[p].data) >= Len(db[p].data)]_vars

(* the step is a call made on the store itself *)
StoreStep(name) == calls' = calls + 1 /\ call'.name = name

(* C22: resize_dataset on an existing path makes the configuration axis longer *)
(* by exactly the amount asked for and keeps what was stored; on an absent     *)
(* path it fails with NotFoundError and the store is as before.                *)
C22_ResizeFrame ==
    [][StoreStep("resize_dataset") =>
         LET path == call'.arg[1]
             amount == call'.arg[2][2]
         IN IF check_existence(db, path)
            THEN /\ err' = "none"
                 /\ Len(db'[path].data) = Len(db[path].data) + amount
                 /\ \A i \in 1..Len(db[path].data) : db'[path].data[i] = db[path].data[i]
                 /\ \A q \in Paths \ {path} : db'[q] = db[q]
            ELSE err' = "NotFoundError" /\ db' = db]_vars

C22_Witness ==
    /\ call.name = "resize_dataset"
    /\ call.existed
    /\ call.old_length > 0
    /\ call.arg[2][2] > 0
    /\ err = "none"
    /\ Len(db[call.arg[1]].data) = call.old_length + call.arg[2][2]
    /\ \E i \in 1..call.old_length : db[call.arg[1]].data[i] # 0

(* C23: add_dataset on an existing path fails with AllocationError and leaves  *)
(* the dataset as it was; on an absent path it creates a dataset of zeros that *)
(* check_existence then reports.                                               *)
C23_AddDatasetOnce ==
    [][StoreStep("add_dataset") =>
         LET path == call'.arg[1]
             shape == call'.arg[2]
         IN IF check_existence(db, path)
            THEN err' = "AllocationError" /\ db' = db
            ELSE /\ err' = "none"
                 /\ check_existence(db', path)
                 /\ db'[path].data = Zeros(shape[2])
                 /\ \A q \in Paths \ {path} : db'[q] = db[q]]_vars

C23_Witness ==
    /\ call.name = "add_dataset"
    /\ call.existed
    /\ call.old_length > 0
    /\ err = "AllocationError"
    /\ Len(db[call.arg[1]].data) = call.old_length
    /\ \E i \in 1..call.old_length : db[call.arg[1]].data[i] # 0

(* C24: after add_dataset on a fresh path get_data_size returns the shape that *)
(* was asked for.                                                              *)
C24_SizeRoundTrip ==
    [][(StoreStep("add_dataset") /\ ~check_existence(db, call'.arg[1])) =>
          get_data_size(db', call'.arg[1]) = call'.arg[2]]_vars

C24_Witness ==
    /\ call.name = "add_dataset"
    /\ ~call.existed
    /\ err = "none"
    /\ call.arg[2][1] # call.arg[2][2]
    /\ get_data_size(db, call.arg[1]) = call.arg[2]

(* C25: for a transform that accumulates along the configuration axis, a run   *)
(* over a species without output stores at the last configuration the value   *)
(* one pass over the whole input gives there, however the run was batched.     *)
C25_CumulativeFinalValue ==
    pc = "done" =>
        \A sp \in processed :
            (/\ Cumulative(tr)
             /\ start_length[sp] < 0
             /\ InputsFull(tr, sp)
             /\ number_of_configurations >= 1) =>
                db[OutputPath(tr, sp)].data[number_of_configurations] =
                    FullTransform(tr, sp)[number_of_configurations]

FluxData(file, n) == SubSeq(file, n_header_lines + 1, n_header_lines + n)

(* C26: with n configurations and a batch size b >= 1 the generator of the     *)
(* LAMMPS flux reader yields floor(n / b) chunks of b lines and then one chunk *)
(* of n mod b lines exactly when n mod b > 0; put one after the other the      *)
(* chunks are the n data lines of the file in their order.                     *)
C26_FluxChunks ==
    /\ reader.state \in {"batches", "remainder", "closed"} =>
          LET b == reader.batch_size
          IN /\ \A i \in 1..Len(reader.yielded) :
                   i <= reader.n_batches => Len(reader.yielded[i]) = b
             /\ Len(reader.yielded) <= reader.n_batches + 1
             /\ Flatten(reader.yielded) =
                   FluxData(reader.file, Len(Flatten(reader.yielded)))
    /\ reader.state = "closed" =>
          LET n == reader.n_configurations
              b == reader.batch_size
              k == Len(reader.yielded)
          IN /\ k = (n \div b) + (IF n % b > 0 THEN 1 ELSE 0)
             /\ \A i \in 1..(n \div b) : Len(reader.yielded[i]) = b
             /\ n % b > 0 => Len(reader.yielded[k]) = n % b
             /\ Flatten(reader.yielded) = FluxData(reader.file, n)

C26_Witness ==
    /\ reader.state = "closed"
    /\ reader.n_configurations = 4
    /\ reader.batch_size = 3
    /\ Len(reader.file) > n_header_lines + 4
    /\ reader.yielded = <<<<Line(3, 1), Line(3, 2), Line(3, 3)>>, <<Line(3, 4)>>>>

Position(sp) == CHOOSE i \in 1..Len(Species) : Species[i] = sp

AllocationsOf(sp) ==
    {k \in 1..Len(ops) : ops[k].op = "add_dataset" /\ OpSpecies(k) = sp}

Covered(sp, i) ==
    \E k \in WritesOf(sp) : ops[k].start <= i /\ i < ops[k].start + ops[k].n

(* the loop stands before a species whose output dataset is stored *)
BeforeStored ==
    /\ pc = "loop"
    /\ species_list # <<>>
    /\ check_existence(db, OutputPath(tr, Head(species_list)))

C29_State ==
    /\ Streaming => start_length[species] < 0
    /\ pc # "idle" =>
          /\ \A sp \in run_list : start_length[sp] >= 0 => Untouched(sp)
          /\ \A j, k \in 1..Len(ops) :
                j < k => Position(OpSpecies(j)) <= Position(OpSpecies(k))
    /\ pc = "done" =>
          \A sp \in run_list :
              start_length[sp] < 0 =>
                 /\ sp \in processed
                 /\ Cardinality(AllocationsOf(sp)) = 1
                 /\ Len(db[OutputPath(tr, sp)].data) = number_of_configurations
                 /\ InputsFull(tr, sp) =>
                       \A i \in 0..(number_of_configurations - 1) : Covered(sp, i)

(* C29: in a run over several species, a species whose output dataset is       *)
(* stored is passed over with no add_dataset, resize_dataset, batch read or    *)
(* add_data for it, and every species of the list whose output is absent is    *)
(* still allocated and written over all configurations, in the order of the    *)
(* list.                                                                       *)
C29_MixedRun ==
    [][/\ BeforeStored =>
             /\ db' = db
             /\ ops' = ops
             /\ nread' = nread
             /\ prefetched' = prefetched
             /\ consumed' = consumed
             /\ attempts' = attempts
             /\ pc' = "loop"
             /\ species_list' = Tail(species_list)
       /\ C29_State']_vars

C29_Witness ==
    /\ pc = "done"
    /\ run_list = SpeciesSet
    /\ start_length["Na"] >= 0
    /\ Untouched("Na")
    /\ start_length["Cl"] < 0
    /\ "Cl" \in processed
    /\ Cardinality(WritesOf("Cl")) >= 2

(* the loop got past the existence check for the species *)
NotSkipped(sp) ==
    \/ sp \in processed
    \/ species = sp /\ (Streaming \/ pc = "error")
    \/ \E k \in 1..Len(ops) : OpSpecies(k) = sp

(* C30: for every species the loop does not skip, add_dataset is called once,  *)
(* with the shape (n_particles of the species, number_of_configurations,       *)
(* n_dims of the output property), before the batching triple is computed and  *)
(* before any batch of the species is read or written.                         *)
C30_AllocatedOnceFirst ==
    pc # "idle" =>
        /\ \A sp \in SpeciesSet :
              NotSkipped(sp) =>
                 /\ \E k \in 1..Len(ops) :
                       /\ ops[k] = Op("add_dataset", OutputPath(tr, sp), 0,
                                      number_of_configurations)
                       /\ \A j \in 1..(k - 1) : OpSpecies(j) # sp
                       /\ \A j \in (k + 1)..Len(ops) :
                             ~(ops[j].op = "add_dataset" /\ OpSpecies(j) = sp)
                 /\ get_data_size(db, OutputPath(tr, sp)) =
                       <<n_particles(sp), number_of_configurations, PropertyNDims>>
        /\ (pc = "error" /\ err \in {"NotFoundError", "InsufficientMemoryError"}) =>
              /\ LastOp.op = "add_dataset"
              /\ OpSpecies(Len(ops)) = species
        /\ (Streaming /\ (nread > 0 \/ prefetched # <<>> \/ consumed # <<>>)) =>
              AllocationsOf(species) # {}

C30_Witness ==
    /\ pc = "done"
    /\ number_of_configurations = 3
    /\ processed = SpeciesSet
    /\ ops[1] = Op("add_dataset", OutputPath(tr, "Na"), 0, 3)
    /\ get_data_size(db, OutputPath(tr, "Cl")) = <<2, 3, PropertyNDims>>
    /\ Cardinality(AllocationsOf("Cl")) = 1
    /\ Cardinality(WritesOf("Cl")) = 3

Lacking(store, dep) ==
    {sp \in SpeciesSet :
        /\ check_existence(store, join_path(sp, "Positions"))
        /\ ~check_existence(store, join_path(sp, dep))}

(* C31: _run_dependency_check calls _resolve_dependencies once when some       *)
(* species of the experiment lacks the dataset of the dependency, and not at   *)
(* all when every species has it, an experiment without species included.      *)
C31_ResolveOnceIffMissing ==
    [][(call'.name = "_run_dependency_check" /\ calls' = calls + 1) =>
          IF Lacking(db, call'.arg) # {}
          THEN /\ call'.resolved = 1
               /\ call'.invoked # "none" \/ err' = "KeyError"
          ELSE /\ call'.resolved = 0
               /\ call'.invoked = "none"
               /\ err' = "none"
               /\ db' = db
               /\ ops' = <<>>]_vars

C31_Witness ==
    /\ call.name = "_run_dependency_check"
    /\ call.arg = "Translational_Dipole_Moment"
    /\ call.resolved = 1
    /\ call.invoked = "TranslationalDipoleMoment"
    /\ ops # <<>>
    /\ \A k \in 1..Len(ops) : OpSpecies(k) = "Cl"
    /\ check_existence(db, join_path("Na", "Translational_Dipole_Moment"))

(* the output of the species was in the store when the run began, left by a   *)
(* run of another instance or by one that did not get to the end              *)
LeftUnfinished(sp) == sp \in run_list /\ start_length[sp] >= 0 /\ sp \notin done_before

(* C32: a dataset a failed run left allocated and partly written is found      *)
(* existing by every later run, which skips the species and writes nothing     *)
(* to it: the indices the failed run did not reach stay unwritten.             *)
C32_InterruptedStaysPartial ==
    [][(pc # "idle" /\ pc' # "idle" /\ runs' = runs) =>
          \A sp \in SpeciesSet :
              LeftUnfinished(sp) =>
                 /\ db'[OutputPath(tr, sp)] = db[OutputPath(tr, sp)]
                 /\ \A k \in 1..Len(ops') : ops'[k].path[1] # sp
                 /\ sp \notin processed']_vars

C32_Witness ==
    /\ pc = "done"
    /\ runs = 2
    /\ ops = <<>>
    /\ \E sp \in SpeciesSet :
          LET data == db[OutputPath(tr, sp)].data
          IN /\ LeftUnfinished(sp)
             /\ <<tr, sp>> \notin finished
             /\ Len(data) = number_of_configurations
             /\ Len(data) >= 2
             /\ data[1] # 0
             /\ data[Len(data)] = 0

(* C33: every add_data of a run, failed attempts included, writes a range of   *)
(* configurations that lies inside the configuration axis of the output        *)
(* dataset: 0 <= start and start + length <= length of the dataset.            *)
C33_WritesInsideDataset ==
    pc # "idle" =>
        /\ \A k \in 1..Len(ops) :
              ops[k].op = "add_data" =>
                 /\ 0 <= ops[k].start
                 /\ ops[k].start + ops[k].n <= Len(db[ops[k].path].data)
        /\ ((Streaming /\ index > 0) \/ (pc = "error" /\ err = "OSError")) =>
              \A k \in 1..Len(attempts) :
                 /\ 0 <= attempts[k].start_idx
                 /\ attempts[k].start_idx + Len(attempts[k].rows)
                       <= Len(db[OutputPath(tr, species)].data)

OutputOfRun(p) == p[2] = output_property(tr) /\ p[1] \in run_list

(* C34: a run creates and writes only the datasets <species>/<output          *)
(* property> of the species in its list: every add_dataset, resize_dataset     *)
(* and add_data is on such a path and every other dataset, the inputs          *)
(* included, is the same after each step of the run.                           *)
C34_OnlyOutputsWritten ==
    [][(pc # "idle" /\ pc' # "idle" /\ runs' = runs) =>
          /\ \A p \in Paths : OutputOfRun(p) \/ db'[p] = db[p]
          /\ \A k \in 1..Len(ops') : OutputOfRun(ops'[k].path)]_vars

C34_Witness ==
    /\ pc = "done"
    /\ tr = "TranslationalDipoleMoment"
    /\ run_list = {"Cl"}
    /\ "Cl" \in processed
    /\ number_of_configurations >= 2
    /\ Cardinality(WritesOf("Cl")) >= 2
    /\ ~check_existence(db, OutputPath(tr, "Na"))
    /\ db[join_path("Cl", "Positions")] =
          RawDataset("Cl", "Positions", number_of_configurations)

(* a first attempt that failed: logged, nothing written *)
FirstAttemptFailed == pc = "save" /\ attempts' # attempts /\ ops' = ops

(* C35: in _save_output only an OSError of the first add_data leads to the     *)
(* wait and the second add_data; any other exception leaves the method after   *)
(* that single attempt, with nothing written.                                  *)
C35_OnlyOSErrorRetried ==
    [][FirstAttemptFailed =>
          IF call'.arg = "OSError"
          THEN pc' = "retry" /\ err' = err
          ELSE /\ pc' = "error"
               /\ err' = call'.arg
               /\ Len(attempts') = 1
               /\ db' = db]_vars

C35_Witness ==
    /\ pc = "error"
    /\ err = "ValueError"
    /\ call = [NoCall EXCEPT !.name = "add_data", !.arg = "ValueError"]
    /\ Len(attempts) = 1
    /\ index = 2
    /\ Stored(OutputPath(tr, species), chunk.lo, Len(chunk.rows)) = Zeros(Len(chunk.rows))

(* the batch the loop is working on, as the dataset delivered it *)
CurrentBatch ==
    ReadBatchData(db, tr, species, consumed[Len(consumed)][1], consumed[Len(consumed)][2])

(* C36: the batch handed to transform_batch has one entry per input property,  *)
(* under the bare property name, and the scalar data_size under the key        *)
(* data_size; the values are those of the delivered batch.                     *)
C36_KeysStripped ==
    pc \in {"save", "retry"} =>
        LET stripped == batch_dict_wo_species(CurrentBatch)
            props == {input_properties(tr)[i] : i \in 1..Len(input_properties(tr))}
        IN /\ DOMAIN stripped = {<<prop>> : prop \in props} \cup {<<"data_size">>}
           /\ stripped[<<"data_size">>] = CurrentBatch.data_size
           /\ \A prop \in props :
                 stripped[<<prop>>] = CurrentBatch.data[join_path(species, prop)]

Columns(file, i) == file[i][1]

(* C37: _get_metadata reports as n_configurations the length of the first      *)
(* block of data: the first data line and the lines after it with the same     *)
(* number of columns, up to the first line with another number; data after     *)
(* that line is not counted.  The metadata holds the one species Observables   *)
(* with one particle.                                                          *)
C37_FirstBlockOnly ==
    reader.state # "none" =>
        LET file == reader.file
            first == n_header_lines + 1
            last == n_header_lines + reader.n_configurations
        IN /\ reader.n_configurations >= 1
           /\ last <= Len(file)
           /\ \A i \in first..last : Columns(file, i) = Columns(file, first)
           /\ last < Len(file) => Columns(file, last + 1) # Columns(file, first)
           /\ reader.species_list = <<[name |-> "Observables", n_particles |-> 1]>>

C37_Witness ==
    /\ reader.state = "ready"
    /\ reader.n_configurations = 2
    /\ Len(reader.file) = n_header_lines + 4
    /\ Columns(reader.file, n_header_lines + 3) = 1
    /\ Columns(reader.file, n_header_lines + 4) = 3

InHeader(name, header_line) == \E i \in 1..Len(header_line) : header_line[i] = name

(* C38: _extract_properties returns the property labels all of whose column    *)
(* names are in the header, each with the columns of its names in the order    *)
(* of the coordinates, and leaves out every label with a name the header       *)
(* does not have.                                                              *)
C38_ExtractProperties ==
    reader.state = "properties" =>
        LET given == reader.database_correspondence_dict
            result == reader.trajectory_properties
            header_line == reader.header_line
        IN /\ DOMAIN result =
                 {label \in DOMAIN given :
                     \A idx \in 1..Len(given[label]) :
                         InHeader(given[label][idx].val, header_line)}
           /\ \A label \in DOMAIN result :
                 /\ Len(result[label]) = Len(given[label])
                 /\ \A idx \in 1..Len(given[label]) :
                       /\ result[label][idx] \in 0..(Len(header_line) - 1)
                       /\ header_line[result[label][idx] + 1] = given[label][idx].val

C38_Witness ==
    /\ reader.state = "properties"
    /\ reader.header_line = <<"q", "z", "x">>
    /\ DOMAIN reader.database_correspondence_dict = {"Positions", "Charge"}
    /\ DOMAIN reader.trajectory_properties = {"Charge"}
    /\ reader.trajectory_properties["Charge"] = <<0>>

Terminated == pc \in {"done", "error"}

(* skipped, or every batch of the species written *)
SkippedOrWritten(sp) ==
    \/ start_length[sp] >= 0 /\ Untouched(sp)
    \/ /\ sp \in processed
       /\ Len(db[OutputPath(tr, sp)].data) = number_of_configurations
       /\ InputsFull(tr, sp) =>
             \A i \in 0..(number_of_configurations - 1) : Covered(sp, i)

(* C39: a run over a finite list of species and a finite number of             *)
(* configurations comes to an end, and when it ends normally every species     *)
(* of the list was either skipped or written to the end.                       *)
C39_Terminates ==
    /\ Running ~> Terminated
    /\ [](pc = "done" => \A sp \in run_list : SkippedOrWritten(sp))

C39_Witness ==
    /\ pc = "done"
    /\ runs = 2
    /\ run_list = SpeciesSet
    /\ number_of_configurations >= 3
    /\ batch_size = 2
    /\ start_length["Cl"] >= 0
    /\ Untouched("Cl")
    /\ "Na" \in processed
    /\ Cardinality(WritesOf("Na")) = 2

=============================================================================
